---- MODULE Spec2Model ----
(***************************************************************************)
(* The web adapter of video-dl (src/app.py) over the download engine       *)
(* adapter (src/downloader.py).                                            *)
(*                                                                         *)
(* State: the start_download requests and the greenlet each one spawns,    *)
(* the start_batch_download request and its greenlet, the Socket.IO        *)
(* events the server has emitted, the terminal interface's playlist        *)
(* download (src/cli.py) and single calls.  The extraction engine          *)
(* (yt_dlp) is the environment: it reports progress zero or more times     *)
(* and then returns an info dict, returns nothing, or raises.              *)
(***************************************************************************)
EXTENDS Integers, Sequences, FiniteSets, TLC

\* Bounds of the model.
MaxRequests == 2        \* start_download requests that arrive
MaxReports == 1         \* progress reports the engine makes per download
MaxVideos == 2          \* videos in the start_batch_download request
MaxCliVideos == 3       \* videos of the playlist the terminal interface downloads
MaxBytes == 3           \* the byte counts of a progress report are in 0..MaxBytes
MaxFormats == 3         \* formats in the engine's info dict
MaxEntries == 3         \* entries of a source listing, and the largest max_videos
MaxSeconds == 7400      \* format_duration is called with 0..MaxSeconds

Sessions == {"s1", "s2"}        \* connected browser sessions (Socket.IO sids)
Absent == "absent"              \* a key the request's dict does not hold
Ids == {"a"}                    \* values of data['id']
Urls == {"", "u"}               \* values of data['url'] / video['url']
Titles == {"t"}                 \* values of video['title']
BatchIds == {"b1"}              \* values of data['batch_id']
All == "all"                    \* addressee of a broadcast

Requests == 1..MaxRequests

VARIABLES
    req,        \* req[r]: the r-th start_download request and its greenlet
    batch,      \* the start_batch_download request and its greenlet
    item,       \* item[i]: iteration i of do_batch_download's loop
    log         \* log[k]: the events emitted so far that carry the key k (the
                \* 'id' of a download's events, the 'batch_id' of a batch's),
                \* in emission order: the server's emission sequence, read
                \* key by key
VARIABLES
    cli,        \* the terminal interface's download of a channel or playlist
    call        \* one call of a function, a method of VideoDownloader or a
                \* REST handler: its name, its inputs and what it returned

vars == <<req, batch, item, log, cli, call>>

(***************************************************************************)
(* Values                                                                  *)
(***************************************************************************)

\* dict.get(key, default)
Get(v, default) == IF v = Absent THEN default ELSE v

\* Optional[str]: None, or a path given by its components.
None == [some |-> FALSE, path |-> <<>>]
Some(p) == [some |-> TRUE, path |-> p]

\* ydl.prepare_filename(info): the download directory joined with the
\* output template '%(title)s.%(ext)s' filled in from info.
PrepareFilename == <<"downloads", "video.mp4">>

\* os.path.basename
Basename(p) == p[Len(p)]

\* What yt_dlp's extract_info(url, download=True) can do.  An empty url
\* names no video: the engine raises.
EngineOutcomes(url) == IF url = "" THEN {"raise"} ELSE {"info", "noinfo", "raise"}

\* VideoDownloader.download_video: the path when the engine returned an
\* info dict; None when it returned nothing or raised (the exception is
\* caught and printed).
DownloadVideo(outcome) ==
    CASE outcome = "info"   -> Some(PrepareFilename)
      [] outcome = "noinfo" -> None
      [] outcome = "raise"  -> None

\* Who receives an event: socketio.emit(...) without a room broadcasts to
\* every connected session, flask_socketio.emit(...) inside a handler
\* answers the requesting session only.
Delivered(e, s) == e.to = All \/ e.to = s

Count(s, Test(_)) == Len(SelectSeq(s, Test))

\* The keys events are emitted under.
Keys == Ids \cup Urls \cup BatchIds \cup {"batch"}

\* socketio.emit / emit of the events es, all carrying the key k.
Emit(k, es) == [log EXCEPT ![k] = @ \o es]

(***************************************************************************)
(* start_download                                                          *)
(***************************************************************************)

\* download_id = data.get('id', url)
DownloadId(id, url) == Get(id, url)

\* The field src of an event names the greenlet that emitted it; it is
\* history, not payload.
DownloadStarted(r, did) ==
    [name |-> "download_started", id |-> did, to |-> All, src |-> r]

UrlRequired(r, did, s) ==
    [name |-> "download_error", id |-> did, error |-> "URL is required",
     to |-> s, src |-> r]

\* The 'status' of the engine's progress reports (downloader.py names
\* downloading, finished, error), or none.
ReportStatuses == {Absent, "downloading", "finished"}

\* handle_download.progress_callback: the n-th report of the engine, p.status
\* its status.
DownloadProgressEvent(r, did, n, status) ==
    [name |-> "download_progress", id |-> did, status |-> status,
     n |-> n, to |-> All, src |-> r]

DownloadComplete(r, did, result) ==
    [name |-> "download_complete", id |-> did,
     filename |-> Basename(result.path), to |-> All, src |-> r]

DownloadFailed(r, did) ==
    [name |-> "download_error", id |-> did, error |-> "Download failed",
     to |-> All, src |-> r]

\* A faulty variant of TerminalEvents: a failed download is reported to nobody.
TerminalEventsSilentFailure(r, did, result) ==
    IF result.some THEN <<DownloadComplete(r, did, result)>> ELSE <<>>

\* do_download, after download_video has returned: the events it emits.
\* (The except branch needs an exception out of the try block; download_video
\* catches the engine's, and the constructor's mkdir(exist_ok=True) finds the
\* directory the module created when it was imported.)
TerminalEvents(r, did, result) ==
    IF result.some THEN <<DownloadComplete(r, did, result)>>
                   ELSE <<DownloadFailed(r, did)>>

\* A faulty variant of SpawnDoDownload: do_download() is called in the handler.
SpawnDoDownloadInline(r, did) ==
    [pc |-> "done", emitted |-> <<DownloadStarted(r, did), DownloadFailed(r, did)>>]

\* A faulty variant of SpawnDoDownload: the greenlet is spawned and no
\* 'download_started' is emitted.
SpawnDoDownloadUnannounced(r, did) ==
    [pc |-> "spawned", emitted |-> <<>>]

\* handle_download from 'download_started' on: the event is emitted and
\* eventlet.spawn(do_download) schedules the greenlet; the handler returns.
SpawnDoDownload(r, did) ==
    [pc |-> "spawned", emitted |-> <<DownloadStarted(r, did)>>]

NoRequest ==
    [pc |-> "none", sid |-> Absent, id |-> Absent, url |-> Absent,
     did |-> Absent, reports |-> 0, result |-> None]

\* The number of requests that have arrived.
Arrived == Cardinality({r \in Requests : req[r].pc # "none"})

\* handle_download(data), sent by session s.
HandleDownload(r, s, id, url) ==
    /\ req[r].pc = "none"
    /\ r = Arrived + 1
    /\ LET did == DownloadId(id, url)
           arrived == [NoRequest EXCEPT !.sid = s, !.id = id, !.url = url,
                                        !.did = did]
       IN  IF url = ""
           THEN /\ req' = [req EXCEPT ![r] = [arrived EXCEPT !.pc = "rejected"]]
                /\ log' = Emit(did, <<UrlRequired(r, did, s)>>)
           ELSE LET after == SpawnDoDownload(r, did)
                IN  /\ req' = [req EXCEPT ![r] = [arrived EXCEPT !.pc = after.pc]]
                    /\ log' = Emit(did, after.emitted)
    /\ UNCHANGED <<cli, call, batch, item>>

\* do_download starts running: it makes its own VideoDownloader, sets the
\* callback and calls download_video.
DoDownloadStart(r) ==
    /\ req[r].pc = "spawned"
    /\ req' = [req EXCEPT ![r].pc = "downloading"]
    /\ UNCHANGED <<cli, call, batch, item, log>>

\* A faulty variant of CallbackId: one callback for every job, that of the
\* request that arrived last.
CallbackIdOfLastRequest(r) == req[Arrived].did

\* The download_id of the progress_callback that request r's do_download
\* sets on its own VideoDownloader: the closure of r's handle_download call.
CallbackId(r) == req[r].did

\* The engine reports progress with status d_status:
\* VideoDownloader._progress_hook calls the callback with p.status =
\* d.get('status', 'unknown'), which emits download_progress and yields
\* (eventlet.sleep(0)).
ProgressCallback(r, d_status) ==
    /\ req[r].pc = "downloading"
    /\ req[r].reports < MaxReports
    /\ req' = [req EXCEPT ![r].reports = @ + 1]
    /\ log' = Emit(CallbackId(r),
                   <<DownloadProgressEvent(r, CallbackId(r), req[r].reports + 1,
                                           Get(d_status, "unknown"))>>)
    /\ UNCHANGED <<cli, call, batch, item>>

\* _progress_hook calls the callback in the download's own greenlet
\* (self._progress_callback(progress)) and waits for it: a callback that
\* does not return holds the download.
CallbackBlocks(r) ==
    /\ req[r].pc = "downloading"
    /\ req[r].reports < MaxReports
    /\ req' = [req EXCEPT ![r].pc = "in_callback", ![r].reports = @ + 1]
    /\ UNCHANGED <<cli, call, batch, item, log>>

\* The engine ends, download_video returns and do_download emits.
DoDownloadFinish(r, outcome) ==
    /\ req[r].pc = "downloading"
    /\ outcome \in EngineOutcomes(req[r].url)
    /\ LET result == DownloadVideo(outcome)
       IN  /\ req' = [req EXCEPT ![r].pc = "done", ![r].result = result]
           /\ log' = Emit(req[r].did, TerminalEvents(r, req[r].did, result))
    /\ UNCHANGED <<cli, call, batch, item>>

(***************************************************************************)
(* start_batch_download                                                    *)
(***************************************************************************)

NoBatch == [pc |-> "idle", videos |-> <<>>, batch_id |-> Absent]
NoItem == [st |-> "pending", reports |-> 0, result |-> None]

\* The videos a request can carry: each a dict with a url and, maybe, a title.
Videos == [url : Urls, title : Titles \cup {Absent}]
VideoLists == UNION {[1..n -> Videos] : n \in 0..MaxVideos}

\* len(videos), and videos[i] for the 0-based i of enumerate(videos).
Total == Len(batch.videos)
Video(i) == batch.videos[i + 1]
Indices == 0..(Total - 1)

\* batch_id = data.get('batch_id', 'batch')
BatchId == Get(batch.batch_id, "batch")

\* video_id = f"{batch_id}_{i}"
VideoId(b, i) == <<b, i>>

\* A faulty variant of BatchProgressEvent: 'current' is the 0-based index.
BatchProgressEventZeroBased(b, i, total, video) ==
    [name |-> "batch_progress", batch_id |-> b, current |-> i,
     total |-> total, title |-> Get(video.title, "Unknown"),
     to |-> All, src |-> i]

BatchProgressEvent(b, i, total, video) ==
    [name |-> "batch_progress", batch_id |-> b, current |-> i + 1,
     total |-> total, title |-> Get(video.title, "Unknown"),
     to |-> All, src |-> i]

\* make_progress_callback(video_id): the n-th report of the engine, p.status
\* its status.
VideoProgressEvent(b, i, n, status) ==
    [name |-> "download_progress", id |-> VideoId(b, i), batch_id |-> b,
     status |-> status, n |-> n, to |-> All, src |-> i]

\* A faulty variant of Success: every video counts as downloaded.
SuccessAlways(result) == TRUE

\* result is not None
Success(result) == result.some

VideoCompleteEvent(b, i, result) ==
    [name |-> "video_complete", batch_id |-> b, video_id |-> VideoId(b, i),
     success |-> Success(result), to |-> All, src |-> i]

BatchCompleteEvent(b) ==
    [name |-> "batch_complete", batch_id |-> b, to |-> All, src |-> "loop"]

\* A faulty variant of CanStart: every video gets a greenlet of its own.
CanStartSpawned(i) == TRUE

\* A faulty variant of CanStart: the loop stops at the first video that fails.
CanStartAfterSuccess(i) ==
    \A k \in 0..(i - 1) : item[k].st = "completed" /\ item[k].result.some

\* for i, video in enumerate(videos): iteration i begins when the iterations
\* before it have run to their end.
CanStart(i) == \A k \in 0..(i - 1) : item[k].st = "completed"

\* A faulty variant of LoopFinished: batch_complete does not wait for the last video.
LoopFinishedEarly == \A i \in Indices : item[i].st # "pending"

\* The for loop has run every iteration.
LoopFinished == \A i \in Indices : item[i].st = "completed"

\* handle_batch_download(data): eventlet.spawn(do_batch_download).
HandleBatchDownload(videos, batch_id) ==
    /\ batch.pc = "idle"
    /\ batch' = [pc |-> "running", videos |-> videos, batch_id |-> batch_id]
    /\ UNCHANGED <<cli, call, req, item, log>>

\* Iteration i begins: batch_progress is emitted.
BatchProgress(i) ==
    /\ batch.pc = "running"
    /\ i \in Indices
    /\ item[i].st = "pending"
    /\ CanStart(i)
    /\ item' = [item EXCEPT ![i].st = "announced"]
    /\ log' = Emit(BatchId, <<BatchProgressEvent(BatchId, i, Total, Video(i))>>)
    /\ UNCHANGED <<cli, call, req, batch>>

\* A VideoDownloader of its own gets the video's callback, and
\* download_video(url, quality) is called.
BatchDownloadStart(i) ==
    /\ batch.pc = "running"
    /\ i \in Indices
    /\ item[i].st = "announced"
    /\ item' = [item EXCEPT ![i].st = "downloading"]
    /\ UNCHANGED <<cli, call, req, batch, log>>

\* The engine reports progress on video i with status d_status: the
\* callback emits download_progress under the video's id, with p.status =
\* d.get('status', 'unknown'), and yields.
BatchProgressCallback(i, d_status) ==
    /\ batch.pc = "running"
    /\ i \in Indices
    /\ item[i].st = "downloading"
    /\ Video(i).url # ""
    /\ item[i].reports < MaxReports
    /\ item' = [item EXCEPT ![i].reports = @ + 1]
    /\ log' = Emit(BatchId, <<VideoProgressEvent(BatchId, i, item[i].reports + 1,
                                                 Get(d_status, "unknown"))>>)
    /\ UNCHANGED <<cli, call, req, batch>>

\* The engine ends and download_video returns.
BatchDownloadReturns(i, outcome) ==
    /\ batch.pc = "running"
    /\ i \in Indices
    /\ item[i].st = "downloading"
    /\ outcome \in EngineOutcomes(Video(i).url)
    /\ item' = [item EXCEPT ![i].st = "returned", ![i].result = DownloadVideo(outcome)]
    /\ UNCHANGED <<cli, call, req, batch, log>>

\* video_complete is emitted and the greenlet yields (eventlet.sleep(0)).
BatchVideoComplete(i) ==
    /\ batch.pc = "running"
    /\ i \in Indices
    /\ item[i].st = "returned"
    /\ item' = [item EXCEPT ![i].st = "completed"]
    /\ log' = Emit(BatchId, <<VideoCompleteEvent(BatchId, i, item[i].result)>>)
    /\ UNCHANGED <<cli, call, req, batch>>

\* After the loop: batch_complete.
BatchComplete ==
    /\ batch.pc = "running"
    /\ LoopFinished
    /\ batch' = [batch EXCEPT !.pc = "done"]
    /\ log' = Emit(BatchId, <<BatchCompleteEvent(BatchId)>>)
    /\ UNCHANGED <<cli, call, req, item>>

(***************************************************************************)
(* The terminal interface and the calls                                    *)
(***************************************************************************)

NoCli == [pc |-> "menu"]
NoCall == [op |-> "none"]

\* download_channel_playlist, from "Download all" on.  videos is the list
\* get_channel_videos returned (not empty: the function returns before), each
\* video given by its url; results are the values download_video returned.
CliLists == UNION {[1..n -> Urls] : n \in 1..MaxCliVideos}

\* A faulty variant of Tally: a failed download is not counted.
TallyForgetsFailures(c, result) ==
    IF result.some THEN [c EXCEPT !.downloaded = @ + 1] ELSE c

\* if result: downloaded += 1 / else: failed += 1
Tally(c, result) ==
    IF result.some THEN [c EXCEPT !.downloaded = @ + 1]
                   ELSE [c EXCEPT !.failed = @ + 1]

\* downloaded = 0; failed = 0; the for loop is entered.
CliStart(videos) ==
    /\ cli.pc = "menu"
    /\ cli' = [pc |-> "loop", videos |-> videos, results |-> <<>>,
               downloaded |-> 0, failed |-> 0]
    /\ UNCHANGED <<req, batch, item, log, call>>

\* The next video: downloader.download_video(video['url'], quality) returns.
\* (An exception out of update_progress is raised inside the engine's call
\* and caught there with the engine's own.)
CliDownload(outcome) ==
    /\ cli.pc = "loop"
    /\ Len(cli.results) < Len(cli.videos)
    /\ outcome \in EngineOutcomes(cli.videos[Len(cli.results) + 1])
    /\ cli' = [cli EXCEPT !.pc = "returned",
                          !.results = Append(@, DownloadVideo(outcome))]
    /\ UNCHANGED <<req, batch, item, log, call>>

\* The video is counted.
CliTally ==
    /\ cli.pc = "returned"
    /\ cli' = [Tally(cli, cli.results[Len(cli.results)]) EXCEPT !.pc = "loop"]
    /\ UNCHANGED <<req, batch, item, log, call>>

\* After the loop the tallies are printed.
CliReport ==
    /\ cli.pc = "loop"
    /\ Len(cli.results) = Len(cli.videos)
    /\ cli' = [cli EXCEPT !.pc = "done"]
    /\ UNCHANGED <<req, batch, item, log, call>>

(***************************************************************************)
(* VideoDownloader._progress_hook                                          *)
(***************************************************************************)

\* A value of one of the engine's dicts under a key that holds a number:
\* Missing when the dict has no such key, Null when it holds None, <<n>> for
\* the number n.
Missing == <<>>
Null == <<"None", "None">>
OptBytes == {Missing, Null} \cup {<<n>> : n \in 0..MaxBytes}

\* Python's truth of d.get(key) for such a value: a number other than 0.
Truthy(v) == Len(v) = 1 /\ v[1] # 0

\* a or b or 0
OrZero(a, b) == IF Truthy(a) THEN a[1] ELSE IF Truthy(b) THEN b[1] ELSE 0

\* d.get(key, 0): the default only when the key is missing; None stays None.
GetOrZero(v) == IF v = Missing THEN <<0>> ELSE v

\* The engine's progress dicts.  Byte counts are not negative.
RawProgress ==
    [status : {Absent, "downloading", "finished"},
     total_bytes : OptBytes,
     total_bytes_estimate : OptBytes,
     downloaded_bytes : OptBytes,
     speed : {Missing, Null, <<0>>, <<2>>},
     eta : {Null, <<5>>},
     filename : {Absent, "f"}]

\* A faulty variant of Percent: the division is not guarded.
PercentUnguarded(downloaded, total) == [num |-> downloaded * 100, den |-> total]

\* percent = (downloaded / total * 100) if total > 0 else 0, as the fraction
\* num/den.
Percent(downloaded, total) ==
    IF total > 0 THEN [num |-> downloaded * 100, den |-> total]
                 ELSE [num |-> 0, den |-> 1]

\* _progress_hook(d) of a downloader with a callback: the DownloadProgress
\* it hands to the callback, or raised when downloaded / total divides None
\* (a TypeError; the callback is not called).
ProgressHook(d) ==
    LET total == OrZero(d.total_bytes, d.total_bytes_estimate)
        downloaded == GetOrZero(d.downloaded_bytes)
    IN  IF total > 0 /\ downloaded = Null
        THEN [raised |-> TRUE]
        ELSE [raised |-> FALSE,
              status |-> Get(d.status, "unknown"),
              downloaded_bytes |-> downloaded,
              total_bytes |-> total,
              speed |-> OrZero(d.speed, Missing),
              eta |-> OrZero(d.eta, Missing),
              filename |-> Get(d.filename, ""),
              percent |-> Percent(IF downloaded = Null THEN 0 ELSE downloaded[1],
                                  total)]

\* The engine calls _progress_hook(d) of a downloader with (cb) or without a
\* progress callback; given is what the callback is given, if it is called,
\* raised whether the hook raises.
ProgressHookCall ==
    /\ call.op = "_progress_hook"
    /\ call.st = "called"
    /\ LET p == ProgressHook(call.d)
       IN  call' = [call EXCEPT
              !.st = "returned",
              !.raised = call.cb /\ p.raised,
              !.given = IF call.cb /\ ~p.raised THEN <<p>> ELSE <<>>]
    /\ UNCHANGED <<req, batch, item, log, cli>>

\* The state with one call made and not yet run.
Called(c) ==
    /\ req = [r \in Requests |-> NoRequest]
    /\ batch = NoBatch
    /\ item = [i \in 0..(MaxVideos - 1) |-> NoItem]
    /\ log = [k \in Keys |-> <<>>]
    /\ cli = NoCli
    /\ call = c

\* One progress report of the engine.
SpecHook ==
    /\ \E d \in RawProgress, cb \in BOOLEAN :
          Called([op |-> "_progress_hook", st |-> "called", d |-> d, cb |-> cb,
                  raised |-> FALSE, given |-> <<>>])
    /\ [][ProgressHookCall]_vars

(***************************************************************************)
(* VideoDownloader.get_video_info, get_quality_options                     *)
(***************************************************************************)

\* standard_heights
StandardHeights == {2160, 1440, 1080, 720, 480, 360, 240, 144}

\* The formats of the engine's info dict: the height (0 when the format has
\* none), the video and the audio codec.
EngineFormats ==
    [height : {0, 720, 1080, 2160, 1000},
     vcodec : {"none", "avc1"},
     acodec : {"none", "mp4a"}]
FormatLists == UNION {[1..n -> EngineFormats] : n \in 0..MaxFormats}

\* Only include formats with video or audio.
WithVideoOrAudio(f) == f.vcodec # "none" \/ f.acodec # "none"

\* The info dict without a key, {}: every other info dict of the engine
\* holds an 'id'.  It is also what info stands for when the engine returned
\* None or raised.
NoInfo ==
    [id |-> Absent, title |-> Absent, duration |-> Missing, thumbnail |-> Absent,
     uploader |-> Absent, formats |-> <<>>]

\* VideoDownloader.get_video_info(url), given what extract_info(url,
\* download=False) did: None when it raised or returned something falsy
\* (`if not info`: None, or the empty dict), else the VideoInfo.
GetVideoInfo(url, outcome, info) ==
    IF outcome = "info" /\ info # NoInfo
    THEN [some |-> TRUE,
          url |-> url,
          title |-> Get(info.title, "Unknown"),
          duration |-> OrZero(info.duration, Missing),
          thumbnail |-> Get(info.thumbnail, ""),
          uploader |-> Get(info.uploader, "Unknown"),
          formats |-> SelectSeq(info.formats, WithVideoOrAudio)]
    ELSE [some |-> FALSE]

\* A faulty variant of SortedDescending: ascending.
RECURSIVE SortedAscending(_)
SortedAscending(S) ==
    IF S = {} THEN <<>>
    ELSE LET m == CHOOSE x \in S : \A y \in S : x <= y
         IN  <<m>> \o SortedAscending(S \ {m})

\* sorted(available_heights, reverse=True)
RECURSIVE SortedDescending(_)
SortedDescending(S) ==
    IF S = {} THEN <<>>
    ELSE LET m == CHOOSE x \in S : \A y \in S : y <= x
         IN  <<m>> \o SortedDescending(S \ {m})

\* The heights of the formats that are standard ones.
AvailableHeights(formats) ==
    {formats[k].height : k \in 1..Len(formats)} \cap (StandardHeights \ {0})

BestOption ==
    [id |-> "bestvideo+bestaudio/best", label |-> "Best Quality (Video + Audio)"]
HeightOption(h) ==
    [id |-> "bestvideo[height<=" \o ToString(h) \o "]+bestaudio/best[height<="
            \o ToString(h) \o "]",
     label |-> ToString(h) \o "p (Video + Audio)"]
AudioOptions ==
    <<[id |-> "bestaudio/best", label |-> "Audio Only (Best Quality)"],
      [id |-> "bestaudio[ext=m4a]/bestaudio", label |-> "Audio Only (M4A)"]>>

\* A faulty variant of QualityOptions: no formats, no options.
QualityOptionsNoneWithoutFormats(info) ==
    IF ~info.some \/ info.formats = <<>> THEN <<>>
    ELSE LET hs == SortedDescending(AvailableHeights(info.formats))
         IN  <<BestOption>> \o [k \in 1..Len(hs) |-> HeightOption(hs[k])]
                            \o AudioOptions

\* get_quality_options, given what its get_video_info(url) returned.
QualityOptions(info) ==
    IF ~info.some THEN <<>>
    ELSE LET hs == SortedDescending(AvailableHeights(info.formats))
         IN  <<BestOption>> \o [k \in 1..Len(hs) |-> HeightOption(hs[k])]
                            \o AudioOptions

\* The engine's info dicts of the calls of get_quality_options.
InfoWithFormats ==
    [id : {"x"}, title : {"t"}, duration : {<<65>>}, thumbnail : {"th"},
     uploader : {"up"}, formats : FormatLists]

\* What extract_info(url, download=False) can do.
Fetches(infos) ==
    {[outcome |-> "info", info |-> i] : i \in infos}
        \cup {[outcome |-> o, info |-> NoInfo] : o \in {"noinfo", "raise"}}

\* get_quality_options(url) runs: fetched is what its get_video_info
\* returned, out the options.
QualityOptionsCall ==
    /\ call.op = "get_quality_options"
    /\ call.st = "called"
    /\ LET info == GetVideoInfo(call.url, call.fetch.outcome, call.fetch.info)
       IN  call' = [call EXCEPT !.st = "returned", !.fetched = info,
                                !.out = QualityOptions(info)]
    /\ UNCHANGED <<req, batch, item, log, cli>>

\* One call of get_quality_options.
SpecQuality ==
    /\ \E f \in Fetches(InfoWithFormats) :
          Called([op |-> "get_quality_options", st |-> "called", url |-> "u",
                  fetch |-> f, fetched |-> [some |-> FALSE], out |-> <<>>])
    /\ [][QualityOptionsCall]_vars

(***************************************************************************)
(* VideoDownloader.get_channel_videos, and the adapter's except clauses    *)
(***************************************************************************)

\* The entries of the engine's flat listing: None, or a dict.
NoEntry == [some |-> FALSE]
EngineEntries ==
    {NoEntry,
     [some |-> TRUE, url |-> "v1", webpage_url |-> Absent, title |-> "t",
      duration |-> <<65>>, thumbnail |-> "th"],
     [some |-> TRUE, url |-> "v2", webpage_url |-> "w", title |-> Absent,
      duration |-> Null, thumbnail |-> Absent],
     [some |-> TRUE, url |-> Absent, webpage_url |-> "w", title |-> "t",
      duration |-> Missing, thumbnail |-> Absent],
     [some |-> TRUE, url |-> "", webpage_url |-> Absent, title |-> "t",
      duration |-> Missing, thumbnail |-> Absent]}
Listings == UNION {[1..n -> EngineEntries] : n \in 0..MaxEntries}

\* max_videos: None or a number.
MaxVideosGiven == {Missing} \cup {<<n>> : n \in 0..MaxEntries}

Min(a, b) == IF a <= b THEN a ELSE b

\* The dict appended to videos for an entry; its duration is 0 for an entry
\* without the key (<<0>>) and None for one that holds None.
VideoOfEntry(entry) ==
    [url |-> IF entry.url \notin {Absent, ""} THEN entry.url
             ELSE Get(entry.webpage_url, ""),
     title |-> Get(entry.title, "Unknown"),
     duration |-> GetOrZero(entry.duration),
     thumbnail |-> Get(entry.thumbnail, "")]

\* info['entries'] as the engine gives it for 'playlist_items': the first
\* max_videos entries of the source listing when the option is '1:max_videos'
\* and the engine honours it, else the whole listing.
EngineEntriesGiven(listing, max_videos, honoured) ==
    IF Truthy(max_videos) /\ honoured
    THEN SubSeq(listing, 1, Min(max_videos[1], Len(listing)))
    ELSE listing

\* A faulty variant of Except: the exception propagates.
NoExcept(raised, value, failure) ==
    [escaped |-> raised, value |-> IF raised THEN failure ELSE value]

\* try: ... except Exception as e: print(...): what the caller gets when the
\* body ran to value, or raised and left failure to be returned.
Except(raised, value, failure) ==
    [escaped |-> FALSE, value |-> IF raised THEN failure ELSE value]

\* How many entries the loop gets from the engine when none raises:
\* enumerate gets the next entry before `i >= max_videos` is tested, so with
\* a truthy max_videos one more than it keeps, if there is one.
EntriesFetched(entries, max_videos) ==
    IF Truthy(max_videos) THEN Min(max_videos[1] + 1, Len(entries))
    ELSE Len(entries)

\* Whether the loop over entries raises: raiseAt = k > 0 says that getting
\* the k-th entry raises.
LoopRaises(entries, max_videos, raiseAt) ==
    raiseAt \in 1..EntriesFetched(entries, max_videos)

\* The loop over entries: stops at index max_videos when max_videos is
\* truthy, skips the entries that are None, ends when an entry raises.  The
\* videos collected.
CollectedVideos(entries, max_videos, raiseAt) ==
    LET cap == IF Truthy(max_videos) THEN Min(max_videos[1], Len(entries))
               ELSE Len(entries)
        seen == IF LoopRaises(entries, max_videos, raiseAt) THEN raiseAt - 1 ELSE cap
        kept == SelectSeq(SubSeq(entries, 1, seen), LAMBDA e : e.some)
    IN  [k \in 1..Len(kept) |-> VideoOfEntry(kept[k])]

\* get_channel_videos(channel_url, max_videos), given what the engine does:
\* e.outcome is what extract_info did, e.listing the source listing,
\* e.honoured whether the engine applied playlist_items, e.raiseAt where
\* the iteration of the entries raises (0: nowhere).
GetChannelVideos(max_videos, e) ==
    CASE e.outcome = "raise"  -> Except(TRUE, <<>>, <<>>)
      [] e.outcome = "noinfo" -> Except(FALSE, <<>>, <<>>)
      [] e.outcome = "info"   ->
            LET entries == EngineEntriesGiven(e.listing, max_videos, e.honoured)
                videos == CollectedVideos(entries, max_videos, e.raiseAt)
            IN  Except(LoopRaises(entries, max_videos, e.raiseAt), videos, videos)

\* What the engine can do in a call of get_channel_videos.
ListingEngines ==
    [outcome : {"info"}, listing : Listings, honoured : BOOLEAN,
     raiseAt : 0..MaxEntries]
        \cup [outcome : {"noinfo", "raise"}, listing : {<<>>},
              honoured : {FALSE}, raiseAt : {0}]

\* What the engine can do in a call of download_video: by says whether an
\* exception is the engine's own or one raised by the progress callback that
\* the engine calls.
DownloadEngines == [outcome : {"info", "noinfo", "raise"}, by : {"engine", "callback"}]

\* One call of an operation of VideoDownloader runs to its end.
AdapterCall ==
    /\ call.op \in {"get_video_info", "download_video", "get_channel_videos"}
    /\ call.st = "called"
    /\ call' = [call EXCEPT
          !.st = "returned",
          !.ret =
             CASE call.op = "get_video_info" ->
                     Except(call.e.outcome = "raise",
                            GetVideoInfo(call.url, call.e.outcome, call.e.info),
                            [some |-> FALSE])
               [] call.op = "download_video" ->
                     Except(call.e.outcome = "raise",
                            DownloadVideo(call.e.outcome), None)
               [] call.op = "get_channel_videos" ->
                     GetChannelVideos(call.max_videos, call.e)]
    /\ UNCHANGED <<req, batch, item, log, cli>>

NoReturn == [escaped |-> FALSE, value |-> <<>>]

\* One call of get_video_info, download_video or get_channel_videos.
SpecAdapter ==
    /\ \/ \E e \in Fetches({i \in InfoWithFormats : Len(i.formats) <= 1}) :
             Called([op |-> "get_video_info", st |-> "called", url |-> "u",
                     e |-> e, ret |-> NoReturn])
       \/ \E e \in DownloadEngines :
             Called([op |-> "download_video", st |-> "called", url |-> "u",
                     e |-> e, ret |-> NoReturn])
       \/ \E e \in ListingEngines, m \in MaxVideosGiven :
             Called([op |-> "get_channel_videos", st |-> "called", url |-> "u",
                     max_videos |-> m, e |-> e, ret |-> NoReturn])
    /\ [][AdapterCall]_vars

(***************************************************************************)
(* format_duration, and the /api/info route                                *)
(***************************************************************************)

\* A faulty variant of TwoDigits: no padding.
Unpadded(n) == ToString(n)

\* The format specification 02d.
TwoDigits(n) == IF n < 10 THEN "0" \o ToString(n) ELSE ToString(n)

\* format_duration(seconds), seconds a non-negative integer.
FormatDuration(seconds) ==
    LET hours == seconds \div 3600
        remainder == seconds % 3600
        minutes == remainder \div 60
        secs == remainder % 60
    IN  IF hours # 0
        THEN ToString(hours) \o ":" \o TwoDigits(minutes) \o ":" \o TwoDigits(secs)
        ELSE ToString(minutes) \o ":" \o TwoDigits(secs)

\* format_duration(seconds) runs.
FormatDurationCall ==
    /\ call.op = "format_duration"
    /\ call.st = "called"
    /\ call' = [call EXCEPT !.st = "returned", !.out = FormatDuration(call.seconds)]
    /\ UNCHANGED <<req, batch, item, log, cli>>

\* One call of format_duration.
SpecFormat ==
    /\ \E s \in 0..MaxSeconds :
          Called([op |-> "format_duration", st |-> "called", seconds |-> s,
                  out |-> ""])
    /\ [][FormatDurationCall]_vars

\* The engine's info dicts of the calls of /api/info: with at most one
\* format, with an 'id' and no other key (or a duration of None), or with no
\* key at all.
InfoSamples ==
    {i \in InfoWithFormats : Len(i.formats) <= 1}
        \cup [id : {"x"}, title : {"t"}, duration : {<<3661>>}, thumbnail : {"th"},
              uploader : {"up"}, formats : {<<>>}]
        \cup [id : {"x"}, title : {Absent}, duration : {Missing, Null},
              thumbnail : {Absent}, uploader : {Absent}, formats : {<<>>}]
        \cup {NoInfo}

\* A faulty variant of ApiInfo: the url is tested after the fetch, and a
\* failed fetch is answered with empty fields.
ApiInfoUnchecked(data_url, first, second) ==
    LET url == Get(data_url, "")
        info == GetVideoInfo(url, first.outcome, first.info)
    IN  IF ~info.some
        THEN [status |-> 200,
              body |-> [title |-> "", uploader |-> "", duration |-> "",
                        thumbnail |-> "", qualities |-> <<>>],
              engine_calls |-> 1]
        ELSE IF url = ""
        THEN [status |-> 400, body |-> [error |-> "URL is required"],
              engine_calls |-> 1]
        ELSE [status |-> 200,
              body |-> [title |-> info.title, uploader |-> info.uploader,
                        duration |-> FormatDuration(info.duration),
                        thumbnail |-> info.thumbnail,
                        qualities |-> QualityOptions(
                            GetVideoInfo(url, second.outcome, second.info))],
              engine_calls |-> 2]

\* The /api/info route: data_url is the request's 'url' (maybe absent), first
\* and second what the engine does in the fetch of get_video_info and in the
\* one of get_quality_options.  The response, and the number of calls of the
\* engine.
ApiInfo(data_url, first, second) ==
    LET url == Get(data_url, "")
        info == GetVideoInfo(url, first.outcome, first.info)
    IN  IF url = ""
        THEN [status |-> 400, body |-> [error |-> "URL is required"],
              engine_calls |-> 0]
        ELSE IF ~info.some
        THEN [status |-> 400, body |-> [error |-> "Could not fetch video info"],
              engine_calls |-> 1]
        ELSE [status |-> 200,
              body |-> [title |-> info.title, uploader |-> info.uploader,
                        duration |-> FormatDuration(info.duration),
                        thumbnail |-> info.thumbnail,
                        qualities |-> QualityOptions(
                            GetVideoInfo(url, second.outcome, second.info))],
              engine_calls |-> 2]

\* A request to /api/info is answered.
ApiInfoCall ==
    /\ call.op = "api_info"
    /\ call.st = "called"
    /\ call' = [call EXCEPT !.st = "returned",
                            !.response = ApiInfo(call.url, call.first, call.second)]
    /\ UNCHANGED <<req, batch, item, log, cli>>

\* One request to /api/info.
SpecInfo ==
    /\ \E url \in Urls \cup {Absent}, first, second \in Fetches(InfoSamples) :
          Called([op |-> "api_info", st |-> "called", url |-> url,
                  first |-> first, second |-> second,
                  response |-> [status |-> 0]])
    /\ [][ApiInfoCall]_vars

(***************************************************************************)
(* Specifications                                                          *)
(***************************************************************************)

Init ==
    /\ req = [r \in Requests |-> NoRequest]
    /\ batch = NoBatch
    /\ item = [i \in 0..(MaxVideos - 1) |-> NoItem]
    /\ log = [k \in Keys |-> <<>>]
    /\ cli = NoCli
    /\ call = NoCall

NextDownload ==
    \/ \E r \in Requests, s \in Sessions, id \in Ids \cup {Absent}, url \in Urls :
          HandleDownload(r, s, id, url)
    \/ \E r \in Requests : DoDownloadStart(r)
    \/ \E r \in Requests, st \in ReportStatuses : ProgressCallback(r, st)
    \/ \E r \in Requests, o \in {"info", "noinfo", "raise"} : DoDownloadFinish(r, o)

\* Single downloads whose progress callback is app.py's own, which returns.
SpecDownload == Init /\ [][NextDownload]_vars

\* Every step of the greenlet that runs request r's do_download.
DoDownloadStep(r) ==
    \/ DoDownloadStart(r)
    \/ \E st \in ReportStatuses : ProgressCallback(r, st)
    \/ \E o \in {"info", "noinfo", "raise"} : DoDownloadFinish(r, o)

NextStall ==
    \/ NextDownload
    \/ \E r \in Requests : CallbackBlocks(r)

\* Single downloads through VideoDownloader with a callback that may not
\* return.  The eventlet hub runs every greenlet that can run, and every
\* call of the engine ends.
FairStall == Init /\ [][NextStall]_vars /\ \A r \in Requests : WF_vars(DoDownloadStep(r))

\* Every step of the greenlet that runs do_batch_download.
BatchStep ==
    \/ \E i \in 0..(MaxVideos - 1) : BatchProgress(i)
    \/ \E i \in 0..(MaxVideos - 1) : BatchDownloadStart(i)
    \/ \E i \in 0..(MaxVideos - 1), st \in ReportStatuses :
          BatchProgressCallback(i, st)
    \/ \E i \in 0..(MaxVideos - 1), o \in {"info", "noinfo", "raise"} :
          BatchDownloadReturns(i, o)
    \/ \E i \in 0..(MaxVideos - 1) : BatchVideoComplete(i)
    \/ BatchComplete

NextBatch ==
    \/ \E videos \in VideoLists, b \in BatchIds \cup {Absent} :
          HandleBatchDownload(videos, b)
    \/ BatchStep

\* One batch download.
SpecBatch == Init /\ [][NextBatch]_vars

\* The same, where the eventlet hub runs the greenlet whenever it can run
\* and every call of the engine ends.
FairBatch == SpecBatch /\ WF_vars(BatchStep)

\* The batches sent to the server that runs single downloads too: videos
\* with a url and a title.
ServerLists == UNION {[1..n -> {[url |-> "u", title |-> "t"]}] : n \in 0..MaxVideos}

NextServer ==
    \/ \E r \in Requests, id \in Ids \cup {Absent} : HandleDownload(r, "s1", id, "u")
    \/ \E r \in Requests : DoDownloadStep(r)
    \/ \E videos \in ServerLists : HandleBatchDownload(videos, "b1")
    \/ BatchStep

\* The server runs single downloads and one batch at once: the handlers
\* share no state, and the greenlets take turns at every step.  The
\* requests come from one session, with a url.
SpecServer == Init /\ [][NextServer]_vars

NextCli ==
    \/ \E videos \in CliLists : CliStart(videos)
    \/ \E o \in {"info", "noinfo", "raise"} : CliDownload(o)
    \/ CliTally
    \/ CliReport

\* The terminal interface downloads one channel or playlist.
SpecCli == Init /\ [][NextCli]_vars

(***************************************************************************)
(* Properties                                                              *)
(***************************************************************************)

\* The events of the batch, and the video_complete events of video i.
BatchLog == log[BatchId]
VideoCompleteOf(i) ==
    SelectSeq(BatchLog, LAMBDA e : e.name = "video_complete"
                                   /\ e.video_id = VideoId(BatchId, i))
DownloadBegun(i) == item[i].st \in {"downloading", "returned", "completed"}

\* C1: in a batch, whatever each download does (a path, an engine failure,
\* an empty url), every video gets exactly one video_complete event, emitted
\* once its download has returned, whose success says whether the download
\* returned a path; when the batch is done every index has been run; and
\* after video i has completed, whether it failed or not, video i+1 is the
\* next to run.
C1_EveryVideoCompletes ==
    \A i \in Indices :
        /\ Len(VideoCompleteOf(i)) = (IF item[i].st = "completed" THEN 1 ELSE 0)
        /\ item[i].st = "completed" =>
              VideoCompleteOf(i)[1].success = item[i].result.some
        /\ batch.pc = "done" => item[i].st = "completed"
        /\ (item[i].st = "completed" /\ i + 1 \in Indices /\ item[i + 1].st = "pending")
              => ENABLED BatchProgress(i + 1)

\* C1's case: a batch that is done, whose first video had an empty url and
\* failed and whose second video was downloaded.
C1_Witness ==
    /\ batch.pc = "done"
    /\ Total = 2
    /\ Video(0).url = ""
    /\ ~item[0].result.some
    /\ item[1].result.some
    /\ Len(VideoCompleteOf(0)) = 1
    /\ Len(VideoCompleteOf(1)) = 1

C2_Safety ==
    /\ Count(BatchLog, LAMBDA e : e.name = "batch_complete")
          = (IF batch.pc = "done" THEN 1 ELSE 0)
    /\ \A k \in 1..Len(BatchLog) :
          BatchLog[k].name = "batch_complete" =>
              /\ k = Len(BatchLog)
              /\ Total > 0 =>
                    \E m \in 1..(k - 1) :
                        /\ BatchLog[m].name = "video_complete"
                        /\ BatchLog[m].video_id = VideoId(BatchId, Total - 1)

\* C2: every batch that runs, the empty one too, comes to emit
\* batch_complete (every call of the engine ending); batch_complete is
\* emitted once, after the video_complete of the last video, and it stays
\* the last event of the batch.
C2_BatchCompleteOnceAtEnd ==
    /\ [](C2_Safety)
    /\ (batch.pc = "running") ~> (batch.pc = "done")

\* C2's case: a batch of two videos has emitted batch_complete.
C2_Witness ==
    /\ batch.pc = "done"
    /\ Total = 2
    /\ BatchLog[Len(BatchLog)].name = "batch_complete"

\* The terminal events request r's greenlet has emitted.
IsTerminal(e) == e.name \in {"download_complete", "download_error"}
Launched(r) == req[r].pc \in {"spawned", "downloading", "in_callback", "done"}
TerminalOf(r) ==
    SelectSeq(log[req[r].did], LAMBDA e : e.src = r /\ IsTerminal(e))

\* C3: a job started with a non-empty url has emitted no terminal event
\* while it runs and exactly one when it is done: download_complete with the
\* file's name when the download returned a path, download_error with a
\* message when it returned nothing or the engine raised.
C3_OneTerminalEvent ==
    \A r \in Requests :
        Launched(r) =>
            /\ Len(TerminalOf(r)) = (IF req[r].pc = "done" THEN 1 ELSE 0)
            /\ req[r].pc = "done" =>
                  LET e == TerminalOf(r)[1]
                  IN  IF req[r].result.some
                      THEN e.name = "download_complete" /\ e.filename = "video.mp4"
                      ELSE e.name = "download_error" /\ e.error = "Download failed"

\* C3's case: one job done with a file, another done without.
C3_Witness ==
    \E r1, r2 \in Requests :
        /\ req[r1].pc = "done" /\ req[r1].result.some
        /\ req[r2].pc = "done" /\ ~req[r2].result.some
        /\ Len(TerminalOf(r1)) = 1
        /\ Len(TerminalOf(r2)) = 1

\* C4: the download_progress events of a job are emitted in the order of the
\* engine's reports, and once a job has emitted its terminal event no
\* download_progress event with that id is emitted.
C4_TerminalIsLastForId ==
    \A k \in Keys :
        \A m, n \in 1..Len(log[k]) :
            m < n =>
               LET e == log[k][m]
                   f == log[k][n]
               IN  /\ (e.name = "download_progress" /\ f.name = "download_progress"
                       /\ e.src = f.src) => e.n < f.n
                   /\ (IsTerminal(e) /\ req[e.src].pc = "done")
                         => f.name # "download_progress"

\* C5: of the start requests that name the same job id, at most one
\* launches a download.
C5_SecondStartFails ==
    \A r1, r2 \in Requests :
        (r1 < r2 /\ Launched(r1) /\ req[r2].did = req[r1].did) => ~Launched(r2)

\* A session observes a job id when it asked for a download under that id.
Subscribed(s, id) ==
    \E r \in Requests : req[r].pc # "none" /\ req[r].sid = s /\ req[r].did = id

\* C6: a session receives the download_progress, download_complete and
\* download_error events only of the jobs it observes.
C6_EventsScopedToJob ==
    \A s \in Sessions, k \in Keys :
        \A m \in 1..Len(log[k]) :
            LET e == log[k][m]
            IN  (Delivered(e, s) /\ (e.name = "download_progress" \/ IsTerminal(e)))
                   => Subscribed(s, e.id)

\* C7: a job that has been started reaches its terminal event, also when a
\* progress callback does not return.
C7_StalledObserverDoesNotStall ==
    \A r \in Requests : (req[r].pc = "spawned") ~> (req[r].pc = "done")

\* C8: the step that handles a start_download request with a url leaves
\* download_started emitted and the job spawned, not run: no terminal event
\* of the job has been emitted when the handler returns.
C8_StartDoesNotBlock ==
    [][\A r \in Requests :
          (req[r].pc = "none" /\ req'[r].pc # "none" /\ req'[r].url # "") =>
              /\ req'[r].pc = "spawned"
              /\ \E m \in 1..Len(log'[req'[r].did]) :
                    LET e == log'[req'[r].did][m]
                    IN  e.name = "download_started" /\ e.src = r
              /\ \A m \in 1..Len(log'[req'[r].did]) :
                    LET e == log'[req'[r].did][m]
                    IN  e.src = r => ~IsTerminal(e)]_vars

\* C8's case: two jobs, started by requests of different sessions, are both
\* downloading.
C8_Witness ==
    \E r1, r2 \in Requests :
        /\ req[r1].sid # req[r2].sid
        /\ req[r1].pc = "downloading"
        /\ req[r2].pc = "downloading"

\* C9: at most one video of the batch is downloading, and the download of a
\* video has begun only if every video before it in the list has had its
\* video_complete event.
C9_Sequential ==
    /\ Cardinality({i \in Indices : item[i].st = "downloading"}) <= 1
    /\ \A i \in Indices :
          DownloadBegun(i) =>
              \A k \in 0..(i - 1) : Len(VideoCompleteOf(k)) = 1

\* C9's case: the second video is downloading after the first has completed.
C9_Witness ==
    /\ Total = 2
    /\ item[0].st = "completed"
    /\ item[1].st = "downloading"

BatchProgressLog == SelectSeq(BatchLog, LAMBDA e : e.name = "batch_progress")

\* C10: when the download of video i (from 0) begins, exactly one
\* batch_progress event with current = i+1 has been emitted, with total the
\* number of videos and the video's title ('Unknown' for a video with none);
\* current is in 1..total, and the k-th batch_progress event has current = k.
C10_BatchProgressBeforeEach ==
    /\ \A i \in Indices :
          LET mine == SelectSeq(BatchProgressLog, LAMBDA e : e.current = i + 1)
          IN  /\ Len(mine) <= 1
              /\ DownloadBegun(i) =>
                    /\ Len(mine) = 1
                    /\ mine[1].total = Total
                    /\ mine[1].title = (IF Video(i).title = Absent THEN "Unknown"
                                        ELSE Video(i).title)
    /\ \A k \in 1..Len(BatchProgressLog) :
          /\ BatchProgressLog[k].current = k
          /\ BatchProgressLog[k].current \in 1..BatchProgressLog[k].total

\* C10's case: the second of two videos, one with a title and one without,
\* is downloading.
C10_Witness ==
    /\ Total = 2
    /\ Video(0).title = Absent
    /\ Video(1).title = "t"
    /\ item[1].st = "downloading"
    /\ Len(BatchProgressLog) = 2

\* The videos of the terminal interface's loop that have been counted.
Counted == 1..(IF cli.pc = "returned" THEN Len(cli.results) - 1 ELSE Len(cli.results))

\* C11: in the terminal interface's playlist download, succeeded is the
\* number of counted videos whose download returned a path and failed the
\* number of those whose download did not; a video is counted only after its
\* download has returned; at the end succeeded + failed is the number of
\* videos.
C11_CountersAddUp ==
    cli.pc # "menu" =>
        /\ cli.downloaded = Cardinality({k \in Counted : cli.results[k].some})
        /\ cli.failed = Cardinality({k \in Counted : ~cli.results[k].some})
        /\ cli.downloaded + cli.failed <= Len(cli.results)
        /\ cli.pc = "done" => cli.downloaded + cli.failed = Len(cli.videos)

\* C11's case: three videos, the second failed: succeeded = 2, failed = 1.
C11_Witness ==
    /\ cli.pc = "done"
    /\ Len(cli.videos) = 3
    /\ cli.results[1].some /\ ~cli.results[2].some /\ cli.results[3].some
    /\ cli.downloaded = 2
    /\ cli.failed = 1

\* The progress report that was handed to the callback.
Reported == call.op = "_progress_hook" /\ call.st = "returned" /\ call.given # <<>>
NotPositive(v) == Len(v) # 1 \/ v[1] <= 0

\* C12: the percent of every progress event is in [0,100], also when the
\* downloaded bytes exceed the total.
C12_PercentInRange ==
    Reported =>
        LET p == call.given[1].percent
        IN  /\ p.den > 0
            /\ 0 <= p.num
            /\ p.num <= 100 * p.den

\* C13: a report in which neither total_bytes nor total_bytes_estimate is a
\* positive number gives percent = 0 and total_bytes = 0, whatever the
\* downloaded bytes, and nothing is divided by zero.
C13_UnknownTotalGivesZero ==
    (Reported /\ NotPositive(call.d.total_bytes)
              /\ NotPositive(call.d.total_bytes_estimate)) =>
        LET p == call.given[1]
        IN  /\ p.percent.den # 0
            /\ p.percent.num = 0
            /\ p.total_bytes = 0

\* C13's case: bytes were downloaded, total_bytes is missing and the estimate
\* is 0.
C13_Witness ==
    /\ Reported
    /\ call.d.total_bytes = Missing
    /\ call.d.total_bytes_estimate = <<0>>
    /\ call.d.downloaded_bytes = <<2>>
    /\ call.given[1].downloaded_bytes = <<2>>
    /\ call.given[1].percent.num = 0

\* get_quality_options has returned; the formats its metadata fetch returned
\* and their heights on the ladder.
OptionsReturned == call.op = "get_quality_options" /\ call.st = "returned"
FetchedFormats ==
    SelectSeq(call.fetch.info.formats,
              LAMBDA f : f.vcodec # "none" \/ f.acodec # "none")
LadderHeights ==
    {h \in {2160, 1440, 1080, 720, 480, 360, 240, 144} :
        \E k \in 1..Len(FetchedFormats) : FetchedFormats[k].height = h}

\* C14: after a successful metadata fetch the options are: the best-quality
\* option; then one option per distinct height of the formats that is on the
\* ladder, in strictly descending order, and none for another height; then
\* the two audio-only options.
C14_QualityLadder ==
    (OptionsReturned /\ call.fetch.outcome = "info") =>
        LET n == Cardinality(LadderHeights)
            out == call.out
        IN  /\ Len(out) = n + 3
            /\ out[1].label = "Best Quality (Video + Audio)"
            /\ out[1].id = "bestvideo+bestaudio/best"
            /\ \E hs \in [1..n -> LadderHeights] :
                  /\ \A k, l \in 1..n : k < l => hs[k] > hs[l]
                  /\ \A k \in 1..n :
                        /\ out[1 + k].label = ToString(hs[k]) \o "p (Video + Audio)"
                        /\ out[1 + k].id =
                              "bestvideo[height<=" \o ToString(hs[k])
                              \o "]+bestaudio/best[height<=" \o ToString(hs[k]) \o "]"
            /\ out[n + 2].label = "Audio Only (Best Quality)"
            /\ out[n + 2].id = "bestaudio/best"
            /\ out[n + 3].label = "Audio Only (M4A)"
            /\ out[n + 3].id = "bestaudio[ext=m4a]/bestaudio"

\* C14's case: three formats, of heights 720, 2160 and 720 again.
C14_Witness ==
    /\ OptionsReturned
    /\ call.fetch.outcome = "info"
    /\ Len(FetchedFormats) = 3
    /\ FetchedFormats[1].height = 720
    /\ FetchedFormats[2].height = 2160
    /\ FetchedFormats[3].height = 720
    /\ Len(call.out) = 5
    /\ call.out[2].label = "2160p (Video + Audio)"
    /\ call.out[3].label = "720p (Video + Audio)"

\* C15 as amended: when the metadata fetch succeeds and yields no format,
\* get_quality_options returns three options, the best-quality one and the
\* two audio-only ones; it returns no option exactly when the fetch fails.
C15_NoFormatsGivesPresets ==
    OptionsReturned =>
        /\ (call.fetch.outcome = "info" /\ FetchedFormats = <<>>) =>
              /\ Len(call.out) = 3
              /\ call.out[1].id = "bestvideo+bestaudio/best"
              /\ call.out[2].id = "bestaudio/best"
              /\ call.out[3].id = "bestaudio[ext=m4a]/bestaudio"
        /\ (call.out = <<>>) <=> (call.fetch.outcome # "info")

\* C15's case: the fetch succeeds and its only format has neither video nor
\* audio, so that it yields no format.
C15_Witness ==
    /\ OptionsReturned
    /\ call.fetch.outcome = "info"
    /\ Len(call.fetch.info.formats) = 1
    /\ call.fetched.some
    /\ call.fetched.formats = <<>>
    /\ Len(call.out) = 3

\* C15: when the metadata fetch succeeds and yields no format,
\* get_quality_options returns the empty sequence.
C15_NoFormatsGivesEmpty ==
    (OptionsReturned /\ call.fetch.outcome = "info" /\ FetchedFormats = <<>>)
        => call.out = <<>>

\* get_channel_videos has returned; the entries of the source listing that
\* are dicts among its first n.
ListingReturned == call.op = "get_channel_videos" /\ call.st = "returned"
FirstOfSource(n) ==
    SelectSeq(SubSeq(call.e.listing, 1, n), LAMBDA e : e.some)

\* C16: when max_videos is given and nothing raises, get_channel_videos
\* returns the first min(max_videos, length of the source listing) entries of
\* the source listing, in source order, whether or not the engine applied
\* its own limit (entries the engine gives as None have no video).
C16_FirstMaxEntries ==
    (/\ ListingReturned
     /\ call.max_videos # <<>>
     /\ call.e.outcome = "info"
     /\ call.e.raiseAt = 0)
        => LET n == IF call.max_videos[1] <= Len(call.e.listing)
                    THEN call.max_videos[1] ELSE Len(call.e.listing)
               first == FirstOfSource(n)
               out == call.ret.value
           IN  /\ Len(out) = Len(first)
               /\ \A k \in 1..Len(first) :
                     /\ first[k].url \notin {"absent", ""} => out[k].url = first[k].url
                     /\ first[k].url \in {"absent", ""} =>
                           out[k].url = (IF first[k].webpage_url = "absent" THEN ""
                                         ELSE first[k].webpage_url)

\* An operation of the adapter has returned after the engine raised.
EngineRaised ==
    /\ call.op \in {"get_video_info", "download_video", "get_channel_videos"}
    /\ call.st = "returned"
    /\ \/ call.e.outcome = "raise"
       \/ /\ call.op = "get_channel_videos"
          /\ call.e.outcome = "info"
          /\ call.e.raiseAt >= 1
          /\ call.e.raiseAt <= Len(call.e.listing)
          /\ \/ call.max_videos \in {<<>>, <<0>>}
             \/ /\ call.e.raiseAt <= call.max_videos[1] + 1
                /\ (call.e.honoured => call.e.raiseAt <= call.max_videos[1])

\* C17: when the engine raises in get_video_info, download_video (the
\* exception of a progress callback included) or get_channel_videos, nothing
\* escapes and the caller gets the failure value: None, None, or the videos
\* collected before the exception.
C17_NothingEscapes ==
    /\ (call.op \in {"get_video_info", "download_video", "get_channel_videos"}
            /\ call.st = "returned") => ~call.ret.escaped
    /\ (EngineRaised /\ call.op = "get_video_info") => ~call.ret.value.some
    /\ (EngineRaised /\ call.op = "download_video") => ~call.ret.value.some
    /\ (EngineRaised /\ call.op = "get_channel_videos") =>
          /\ call.e.outcome = "raise" => call.ret.value = <<>>
          /\ call.e.outcome = "info" =>
                Len(call.ret.value) = Len(FirstOfSource(call.e.raiseAt - 1))

\* C17's case: the progress callback raised during a download, and
\* download_video returned None.
C17_Witness ==
    /\ EngineRaised
    /\ call.op = "download_video"
    /\ call.e.by = "callback"
    /\ ~call.ret.escaped
    /\ ~call.ret.value.some

\* C18: /api/info answers 400 exactly when the url is empty (or missing) or
\* the metadata fetch fails (the engine raises, or returns None or a dict
\* without a key), in the first case without a call of the engine;
\* otherwise it answers with title, uploader, duration, thumbnail and
\* qualities.
C18_BadRequestExactly ==
    (call.op = "api_info" /\ call.st = "returned") =>
        LET empty == call.url \in {"", "absent"}
            failed == \/ call.first.outcome # "info"
                      \/ \A key \in {"id", "title", "thumbnail", "uploader"} :
                            call.first.info[key] = "absent"
            r == call.response
        IN  /\ (r.status = 400) <=> (empty \/ failed)
            /\ empty => r.engine_calls = 0
            /\ r.status # 400 =>
                  /\ r.status = 200
                  /\ DOMAIN r.body =
                        {"title", "uploader", "duration", "thumbnail", "qualities"}
                  /\ r.body.title = (IF call.first.info.title = "absent"
                                     THEN "Unknown" ELSE call.first.info.title)

\* C18's case: a request with a url whose fetches succeed is answered with
\* the fields, the qualities not empty.
C18_Witness ==
    /\ call.op = "api_info"
    /\ call.st = "returned"
    /\ call.url = "u"
    /\ call.response.status = 200
    /\ call.response.engine_calls = 2
    /\ call.response.body.duration = "1:01:01"
    /\ Len(call.response.body.qualities) = 3

\* The two decimal digits of n < 100.
Digits2(n) == ToString(n \div 10) \o ToString(n % 10)

\* C19: format_duration(s) is H:MM:SS for s >= 3600 and M:SS otherwise,
\* hours (minutes in the short form) unpadded, the others in two digits,
\* with H*3600 + M*60 + S = s, M < 60 in the hour form and S < 60; 65 gives
\* 1:05, 3661 gives 1:01:01 and 0 gives 0:00.
C19_FormatDuration ==
    (call.op = "format_duration" /\ call.st = "returned") =>
        LET s == call.seconds
        IN  /\ s >= 3600 =>
                  \E S \in 0..59 : \E M \in 0..59 :
                      /\ (s - S - M * 60) % 3600 = 0
                      /\ call.out = ToString((s - S - M * 60) \div 3600) \o ":"
                                        \o Digits2(M) \o ":" \o Digits2(S)
            /\ s < 3600 =>
                  \E S \in 0..59 :
                      /\ (s - S) % 60 = 0
                      /\ call.out = ToString((s - S) \div 60) \o ":" \o Digits2(S)
            /\ s = 65 => call.out = "1:05"
            /\ s = 3661 => call.out = "1:01:01"
            /\ s = 0 => call.out = "0:00"

\* C19's case: 7325 seconds are formatted 2:02:05.
C19_Witness ==
    /\ call.op = "format_duration"
    /\ call.st = "returned"
    /\ call.seconds = 7325
    /\ call.out = "2:02:05"

\* The events of a log before its m-th that satisfy Test.
Before(l, m, Test(_)) == SelectSeq(SubSeq(l, 1, m - 1), Test)

\* C20: every download_progress event carries the id of the job whose
\* download reported: in a batch the id made of the batch id and the index
\* of the video that is downloading when the event is emitted (announced
\* last, not yet completed); for a single download the id of the request
\* (its url when it gave none), whatever other downloads run.
C20_ProgressCarriesOwnId ==
    \A k \in Keys : \A m \in 1..Len(log[k]) :
        LET e == log[k][m]
        IN  e.name = "download_progress" =>
              IF "batch_id" \in DOMAIN e
              THEN LET announced == Before(log[k], m,
                                           LAMBDA x : x.name = "batch_progress")
                       completed == Before(log[k], m,
                                           LAMBDA x : x.name = "video_complete")
                   IN  /\ e.batch_id = (IF batch.batch_id = "absent" THEN "batch"
                                        ELSE batch.batch_id)
                       /\ e.id = <<e.batch_id, e.src>>
                       /\ Len(announced) = e.src + 1
                       /\ announced[Len(announced)].current = e.src + 1
                       /\ Len(completed) = e.src
                       /\ \A c \in 1..Len(completed) : completed[c].video_id # e.id
              ELSE e.id = (IF req[e.src].id = "absent" THEN req[e.src].url
                           ELSE req[e.src].id)

\* C20's case: two single downloads with different ids and the second video
\* of a batch are downloading at once, and each has reported progress, the
\* first request after the second and the batch had started.
C20_Witness ==
    /\ req[1].pc = "downloading"
    /\ req[2].pc = "downloading"
    /\ req[1].did # req[2].did
    /\ batch.pc = "running"
    /\ Len(batch.videos) = 2
    /\ item[1].st = "downloading"
    /\ item[1].reports = 1
    /\ log[req[1].did] # <<>>
    /\ log[req[1].did][Len(log[req[1].did])].name = "download_progress"
    /\ log[req[1].did][Len(log[req[1].did])].src = 1
    /\ \E m \in 1..Len(log[req[2].did]) :
          /\ log[req[2].did][m].name = "download_progress"
          /\ log[req[2].did][m].src = 2

\* C21: when /api/info answers with success, the qualities are a full
\* ladder: not empty, the best-quality option first and the two audio-only
\* options last, also when the second fetch of the metadata, made to build
\* them, fails.
C21_QualitiesOnSuccess ==
    (call.op = "api_info" /\ call.st = "returned" /\ call.response.status = 200)
        => LET q == call.response.body.qualities
           IN  /\ Len(q) >= 3
               /\ q[1].id = "bestvideo+bestaudio/best"
               /\ q[Len(q) - 1].id = "bestaudio/best"
               /\ q[Len(q)].id = "bestaudio[ext=m4a]/bestaudio"

\* The events of request r, in the order of their emission (all under the
\* request's id).
EventsOf(r) == SelectSeq(log[req[r].did], LAMBDA e : e.src = r)

\* C22: a start_download request with an empty url has emitted exactly one
\* event, a download_error, and no download is spawned for it; a request
\* with a url has emitted download_started exactly once, before every other
\* event of its job.
C22_StartedFirstOrRejected ==
    \A r \in Requests :
        req[r].pc # "none" =>
            LET ev == EventsOf(r)
            IN  IF req[r].url = ""
                THEN /\ req[r].pc = "rejected"
                     /\ Len(ev) = 1
                     /\ ev[1].name = "download_error"
                     /\ ev[1].id = (IF req[r].id = "absent" THEN "" ELSE req[r].id)
                ELSE /\ req[r].pc \in {"spawned", "downloading", "done"}
                     /\ Len(ev) >= 1
                     /\ ev[1].name = "download_started"
                     /\ \A m \in 2..Len(ev) :
                           ev[m].name \in {"download_progress", "download_complete",
                                           "download_error"}

\* C22's case: the first request had an empty url and was rejected; the
\* second had a url, reported progress and completed.
C22_Witness ==
    /\ req[1].pc = "rejected"
    /\ Len(EventsOf(1)) = 1
    /\ req[2].pc = "done"
    /\ req[2].result.some
    /\ Len(EventsOf(2)) = 3
    /\ EventsOf(2)[2].name = "download_progress"
    /\ EventsOf(2)[3].name = "download_complete"

====
